---- MODULE Spec2Model ----
(***************************************************************************)
(* Model of aws_enumerator.py: get_all_resources() enumerating the         *)
(* resources of every region of an account, and the MainWindow that shows  *)
(* the result (region list, per-region view, combined "ALL" view, log).    *)
(*                                                                         *)
(* Every cloud call is one action.  A call either succeeds, raises         *)
(* botocore's ClientError (the only exception the code catches), or raises *)
(* any other exception (botocore's connection and timeout errors derive    *)
(* from BotoCoreError, not from ClientError).                              *)
(***************************************************************************)
EXTENDS Integers, Sequences, FiniteSets, TLC

(* ---------------------------------------------------------------- bounds *)

\* Longest region listing the provider returns in a modelled run.
MaxRegions == 2

\* Most selection events delivered to the window in a modelled run.
MaxSelections == 1

(* ------------------------------------------------------- the environment *)

\* Region identifiers the provider may list (repeats allowed).
RegionNames == {"us-east-1", "eu-west-1"}

\* Python's None, as returned in LocationConstraint for the default region.
None == "None"

\* Outcomes of one cloud call.
Outcomes == {"ok", "ClientError", "OtherError"}

RECURSIVE SeqsUpTo(_, _)
\* All sequences over S of length at most n.
SeqsUpTo(S, n) ==
    IF n = 0 THEN {<< >>}
    ELSE LET shorter == SeqsUpTo(S, n - 1)
         IN  shorter \cup {Append(s, x) : s \in shorter, x \in S}

\* The listings describe_regions may return.
RegionListings == SeqsUpTo(RegionNames, MaxRegions)

\* The names list_buckets returns, in order.
BucketNames == <<"b1", "b2">>

\* Where the account's buckets may live: a bucket of the default region has
\* no location constraint (None) or, as b2 of the second world, names it.
BucketWorlds ==
    { [b1 |-> "eu-west-1", b2 |-> None],
      [b1 |-> None,        b2 |-> "us-east-1"] }

\* Response of ec2.describe_instances() in region r.
InstancesResponse(r) ==
    CASE r = "us-east-1" ->
           [Reservations |->
              << [Instances |-> << [InstanceId |-> "i-use1a"],
                                   [InstanceId |-> "i-use1b"] >>],
                 [Instances |-> << [InstanceId |-> "i-use1c"] >>] >>]
      [] r = "eu-west-1" ->
           [Reservations |->
              << [Instances |-> << [InstanceId |-> "i-euw1a"] >>] >>]
      [] OTHER -> [Reservations |-> << >>]

\* Response of ec2.describe_volumes() in region r.
VolumesResponse(r) ==
    CASE r = "us-east-1" -> [Volumes |-> << [VolumeId |-> "vol-use1a"] >>]
      [] r = "eu-west-1" -> [Volumes |-> << [VolumeId |-> "vol-euw1a"],
                                            [VolumeId |-> "vol-euw1b"] >>]
      [] OTHER -> [Volumes |-> << >>]

\* Response of ec2.describe_snapshots(OwnerIds=['self']) in region r.
SnapshotsResponse(r) ==
    CASE r = "us-east-1" -> [Snapshots |-> << [SnapshotId |-> "snap-use1a"] >>]
      [] r = "eu-west-1" -> [Snapshots |-> << [SnapshotId |-> "snap-euw1a"] >>]
      [] OTHER -> [Snapshots |-> << >>]

\* Response of ec2.describe_security_groups() in region r.
SecurityGroupsResponse(r) ==
    CASE r = "us-east-1" ->
           [SecurityGroups |->
              << [GroupName |-> "default", GroupId |-> "sg-use1a"],
                 [GroupName |-> "web",     GroupId |-> "sg-use1b"] >>]
      [] r = "eu-west-1" ->
           [SecurityGroups |->
              << [GroupName |-> "default", GroupId |-> "sg-euw1a"] >>]
      [] OTHER -> [SecurityGroups |-> << >>]

\* Response of rds.describe_db_instances() in region r.
DBInstancesResponse(r) ==
    CASE r = "us-east-1" ->
           [DBInstances |->
              << [DBInstanceIdentifier |-> "db-use1a",
                  DBInstanceStatus |-> "available"] >>]
      [] r = "eu-west-1" ->
           [DBInstances |->
              << [DBInstanceIdentifier |-> "db-euw1a",
                  DBInstanceStatus |-> "stopped"] >>]
      [] OTHER -> [DBInstances |-> << >>]

\* Response of s3.list_buckets().
BucketsResponse ==
    [Buckets |-> << [Name |-> BucketNames[1]], [Name |-> BucketNames[2]] >>]

(* ------------------------------------------------------------- the state *)

VARIABLES
    cloud_regions,        \* what describe_regions returns when it succeeds
    bucket_location,      \* LocationConstraint of every bucket
    pc,                   \* position of the program
    regions,              \* local 'regions' of get_all_resources
    idx,                  \* position of 'for region in regions'
    region_data,          \* local 'region_data' of the current iteration
    resources_by_region,  \* the dict being built: sequence of <<key, value>>
    buckets_data,         \* buckets of the current list_buckets response
    bidx,                 \* position of 'for bucket in buckets_data'
    calls,                \* history: how often each cloud call was issued
    failed,               \* history: <<region, kind>> whose last query raised
    discovery_failed,     \* history: describe_regions raised
    located,              \* history: buckets whose location lookup returned
    resources,            \* MainWindow.resources
    region_list,          \* items of MainWindow.region_list
    resource_display,     \* lines of MainWindow.resource_display
    log_text,             \* lines of MainWindow.log_text
    shown,                \* the data_dict last handed to format_region_data
    selections            \* number of selection events delivered so far

enum_vars == <<regions, idx, region_data, resources_by_region, buckets_data, bidx>>
hist_vars == <<calls, failed, discovery_failed, located>>
gui_vars  == <<resources, region_list, resource_display, log_text, shown, selections>>
env_vars  == <<cloud_regions, bucket_location>>
vars == <<env_vars, pc, enum_vars, hist_vars, gui_vars>>

(* ------------------------------------------------------ Python helpers *)

\* The six keys of a region's dict, in the order the literal lists them.
KindOrder ==
    <<"Instances", "Volumes", "Snapshots", "SecurityGroups", "S3Buckets", "RDSInstances">>

Kinds == {KindOrder[i] : i \in DOMAIN KindOrder}

\* The literal with its last key forgotten.
EmptyRegionDataShort == [k \in Kinds \ {"RDSInstances"} |-> << >>]

\* region_data = {'Instances': [], ..., 'RDSInstances': []}
EmptyRegionData == [k \in Kinds |-> << >>]

\* combined = {'Instances': [], ..., 'RDSInstances': []}
EmptyCombined == [k \in Kinds |-> << >>]

\* A local that is not bound (before its first assignment, after unwinding).
Unbound == << >>

\* d[k].append(item)
AppendTo(d, k, item) ==
    [x \in DOMAIN d |-> IF x = k THEN Append(d[x], item) ELSE d[x]]

\* d[k].extend(items)
ExtendAt(d, k, items) ==
    [x \in DOMAIN d |-> IF x = k THEN d[x] \o items ELSE d[x]]

\* list(d.keys()) of an insertion-ordered dict.
DictKeys(d) == [i \in DOMAIN d |-> d[i][1]]

\* k in d
DictHas(d, k) == \E i \in DOMAIN d : d[i][1] = k

\* d[k]
DictGet(d, k) == d[CHOOSE i \in DOMAIN d : d[i][1] = k][2]

\* d[k] = v: a present key keeps its position, a new key goes last.
DictSet(d, k, v) ==
    IF DictHas(d, k)
    THEN [i \in DOMAIN d |-> IF d[i][1] = k THEN <<k, v>> ELSE d[i]]
    ELSE Append(d, <<k, v>>)

RECURSIVE InstanceIds(_)
\* for reservation in Reservations: for instance in Instances: InstanceId
InstanceIds(reservations) ==
    IF reservations = << >> THEN << >>
    ELSE [i \in DOMAIN Head(reservations).Instances |->
             Head(reservations).Instances[i].InstanceId]
         \o InstanceIds(Tail(reservations))

\* f"{sg['GroupName']} ({sg['GroupId']})"
FormatSecurityGroup(sg) == sg.GroupName \o " (" \o sg.GroupId \o ")"

\* f"{db['DBInstanceIdentifier']} (Status: {db['DBInstanceStatus']})"
FormatDBInstance(db) ==
    db.DBInstanceIdentifier \o " (Status: " \o db.DBInstanceStatus \o ")"

\* The match without the test for the default region.
BucketMatchesAnywhere(bucket_region, region) ==
    bucket_region = region \/ bucket_region = None

\* bucket_region == region or (bucket_region is None and region == 'us-east-1')
BucketMatches(bucket_region, region) ==
    \/ bucket_region = region
    \/ (bucket_region = None /\ region = "us-east-1")

\* if region == 'ALL': continue
IsPlaceholder(region) == region = "ALL"

(* ------------------------------------------------------------ histories *)

Apis == {"describe_instances", "describe_volumes", "describe_snapshots",
         "describe_security_groups", "describe_db_instances"}

CallKeys ==
    {<<"describe_regions", "-">>, <<"list_buckets", "-">>, <<"get_bucket_location", "-">>}
    \cup (Apis \X (RegionNames \cup {"ALL"}))

Called(api, where) == [calls EXCEPT ![<<api, where>>] = @ + 1]

\* The record of region r's earlier pass is replaced by the new pass.
ForgetRegion(r) == {p \in failed : p[1] # r}

(* ----------------------------------------------------------------- Init *)

Init ==
    /\ cloud_regions \in RegionListings
    /\ bucket_location \in BucketWorlds
    /\ pc = "describe_regions"
    /\ regions = << >>
    /\ idx = 0
    /\ region_data = Unbound
    /\ resources_by_region = << >>
    /\ buckets_data = << >>
    /\ bidx = 0
    /\ calls = [k \in CallKeys |-> 0]
    /\ failed = {}
    /\ discovery_failed = FALSE
    /\ located = {}
    /\ resources = << >>
    /\ region_list = << >>
    /\ resource_display = << >>
    /\ log_text = << >>
    /\ shown = [label |-> None, data |-> << >>]
    /\ selections = 0

region == regions[idx]

\* An exception no handler catches leaves get_all_resources and ends the
\* program before any window exists; the locals are gone.
Raise ==
    /\ pc' = "raised"
    /\ regions' = << >>
    /\ idx' = 0
    /\ region_data' = Unbound
    /\ resources_by_region' = << >>
    /\ buckets_data' = << >>
    /\ bidx' = 0

(* ------------------------------------------------- get_all_resources *)

\* regions_data = ec2_client.describe_regions(); regions.insert(0, 'ALL')
\* A ClientError returns the empty dict.
DescribeRegions ==
    /\ pc = "describe_regions"
    /\ calls' = Called("describe_regions", "-")
    /\ \E outcome \in Outcomes :
         \/ /\ outcome = "ok"
            /\ regions' = <<"ALL">> \o cloud_regions
            /\ idx' = 1
            /\ pc' = "for_region"
            /\ UNCHANGED <<region_data, resources_by_region, buckets_data, bidx,
                           discovery_failed>>
         \/ /\ outcome = "ClientError"
            /\ discovery_failed' = TRUE
            /\ pc' = "returned"
            /\ UNCHANGED enum_vars
         \/ /\ outcome = "OtherError"
            /\ discovery_failed' = TRUE
            /\ Raise
    /\ UNCHANGED <<env_vars, failed, located, gui_vars>>

\* for region in regions: if region == 'ALL': continue
SkipPlaceholder ==
    /\ pc = "for_region"
    /\ idx <= Len(regions)
    /\ IsPlaceholder(region)
    /\ idx' = idx + 1
    /\ UNCHANGED <<env_vars, pc, regions, region_data, resources_by_region,
                   buckets_data, bidx, hist_vars, gui_vars>>

\* for region in regions: region_data = {...six empty lists...}
BeginRegion ==
    /\ pc = "for_region"
    /\ idx <= Len(regions)
    /\ ~IsPlaceholder(region)
    /\ region_data' = EmptyRegionData
    /\ failed' = ForgetRegion(region)
    /\ pc' = "describe_instances"
    /\ UNCHANGED <<env_vars, regions, idx, resources_by_region, buckets_data, bidx,
                   calls, discovery_failed, located, gui_vars>>

\* The loop is exhausted: return resources_by_region
Return ==
    /\ pc = "for_region"
    /\ idx > Len(regions)
    /\ pc' = "returned"
    /\ UNCHANGED <<env_vars, enum_vars, hist_vars, gui_vars>>

\* One query of the EC2 try block: on success its items are appended and the
\* block goes on to the next query; a ClientError leaves the whole block for
\* the S3 section; any other exception leaves the function.
Ec2Query(here, api, kind, items, next) ==
    /\ pc = here
    /\ calls' = Called(api, region)
    /\ \E outcome \in Outcomes :
         \/ /\ outcome = "ok"
            /\ region_data' = ExtendAt(region_data, kind, items)
            /\ pc' = next
            /\ UNCHANGED <<regions, idx, resources_by_region, buckets_data, bidx, failed>>
         \/ /\ outcome = "ClientError"
            /\ failed' = failed \cup {<<region, kind>>}
            /\ pc' = "list_buckets"
            /\ UNCHANGED enum_vars
         \/ /\ outcome = "OtherError"
            /\ failed' = failed \cup {<<region, kind>>}
            /\ Raise
    /\ UNCHANGED <<env_vars, discovery_failed, located, gui_vars>>

DescribeInstances ==
    Ec2Query("describe_instances", "describe_instances", "Instances",
             InstanceIds(InstancesResponse(region).Reservations),
             "describe_volumes")

DescribeVolumes ==
    Ec2Query("describe_volumes", "describe_volumes", "Volumes",
             LET vs == VolumesResponse(region).Volumes
             IN  [i \in DOMAIN vs |-> vs[i].VolumeId],
             "describe_snapshots")

DescribeSnapshots ==
    Ec2Query("describe_snapshots", "describe_snapshots", "Snapshots",
             LET ss == SnapshotsResponse(region).Snapshots
             IN  [i \in DOMAIN ss |-> ss[i].SnapshotId],
             "describe_security_groups")

DescribeSecurityGroups ==
    Ec2Query("describe_security_groups", "describe_security_groups", "SecurityGroups",
             LET gs == SecurityGroupsResponse(region).SecurityGroups
             IN  [i \in DOMAIN gs |-> FormatSecurityGroup(gs[i])],
             "list_buckets")

\* buckets_data = s3_client.list_buckets(), issued inside the region loop.
ListBuckets ==
    /\ pc = "list_buckets"
    /\ calls' = Called("list_buckets", "-")
    /\ \E outcome \in Outcomes :
         \/ /\ outcome = "ok"
            /\ buckets_data' = BucketsResponse.Buckets
            /\ bidx' = 1
            /\ pc' = IF BucketsResponse.Buckets = << >>
                     THEN "describe_db_instances" ELSE "get_bucket_location"
            /\ UNCHANGED <<regions, idx, region_data, resources_by_region, failed>>
         \/ /\ outcome = "ClientError"
            /\ failed' = failed \cup {<<region, "S3Buckets">>}
            /\ pc' = "describe_db_instances"
            /\ UNCHANGED enum_vars
         \/ /\ outcome = "OtherError"
            /\ failed' = failed \cup {<<region, "S3Buckets">>}
            /\ Raise
    /\ UNCHANGED <<env_vars, discovery_failed, located, gui_vars>>

\* for bucket in buckets: look its location up, keep it when it matches the
\* region of this iteration.  A ClientError leaves the bucket loop.
GetBucketLocation ==
    /\ pc = "get_bucket_location"
    /\ calls' = Called("get_bucket_location", "-")
    /\ \E outcome \in Outcomes :
         \/ /\ outcome = "ok"
            /\ LET bucket == buckets_data[bidx]
                   bucket_region == bucket_location[bucket.Name]
               IN  region_data' =
                     IF BucketMatches(bucket_region, region)
                     THEN AppendTo(region_data, "S3Buckets", bucket.Name)
                     ELSE region_data
            /\ located' = located \cup {buckets_data[bidx].Name}
            /\ bidx' = bidx + 1
            /\ pc' = IF bidx = Len(buckets_data)
                     THEN "describe_db_instances" ELSE "get_bucket_location"
            /\ UNCHANGED <<regions, idx, resources_by_region, buckets_data, failed>>
         \/ /\ outcome = "ClientError"
            /\ failed' = failed \cup {<<region, "S3Buckets">>}
            /\ pc' = "describe_db_instances"
            /\ UNCHANGED <<enum_vars, located>>
         \/ /\ outcome = "OtherError"
            /\ failed' = failed \cup {<<region, "S3Buckets">>}
            /\ Raise
            /\ UNCHANGED located
    /\ UNCHANGED <<env_vars, discovery_failed, gui_vars>>

\* rds.describe_db_instances(), then resources_by_region[region] = region_data
\* and the next iteration.
DescribeDBInstances ==
    /\ pc = "describe_db_instances"
    /\ calls' = Called("describe_db_instances", region)
    /\ \E outcome \in Outcomes :
         \/ /\ outcome = "ok"
            /\ LET dbs == DBInstancesResponse(region).DBInstances
                   filled == ExtendAt(region_data, "RDSInstances",
                                      [i \in DOMAIN dbs |-> FormatDBInstance(dbs[i])])
               IN  /\ region_data' = filled
                   /\ resources_by_region' = DictSet(resources_by_region, region, filled)
            /\ idx' = idx + 1
            /\ pc' = "for_region"
            /\ UNCHANGED <<regions, buckets_data, bidx, failed>>
         \/ /\ outcome = "ClientError"
            /\ failed' = failed \cup {<<region, "RDSInstances">>}
            /\ resources_by_region' = DictSet(resources_by_region, region, region_data)
            /\ idx' = idx + 1
            /\ pc' = "for_region"
            /\ UNCHANGED <<regions, region_data, buckets_data, bidx>>
         \/ /\ outcome = "OtherError"
            /\ failed' = failed \cup {<<region, "RDSInstances">>}
            /\ Raise
    /\ UNCHANGED <<env_vars, discovery_failed, located, gui_vars>>

(* ------------------------------------------------------------ MainWindow *)

\* Position of a region label in Python's string order (code points:
\* upper-case letters sort before lower-case ones).
SortKey(label) ==
    CASE label = "ALL" -> 0
      [] label = "eu-west-1" -> 1
      [] label = "us-east-1" -> 2

RECURSIVE Sorted(_)
\* sorted(keys) for the distinct keys of a dict.
Sorted(keys) ==
    IF keys = {} THEN << >>
    ELSE LET least == CHOOSE k \in keys : \A o \in keys : SortKey(k) <= SortKey(o)
         IN  <<least>> \o Sorted(keys \ {least})

RECURSIVE Join(_)
\* "\n".join(lines)
Join(lines) ==
    IF lines = << >> THEN ""
    ELSE IF Len(lines) = 1 THEN lines[1]
    ELSE lines[1] \o "\n" \o Join(Tail(lines))

RECURSIVE ItemLines(_)
\* for item in items: lines.append(f"  - {item}")
ItemLines(items) ==
    IF items = << >> THEN << >>
    ELSE <<"  - " \o Head(items)>> \o ItemLines(Tail(items))

RECURSIVE KindLines(_, _)
\* for resource_type, items in data_dict.items(): header, items or "(none)", ""
KindLines(data_dict, kinds) ==
    IF kinds = << >> THEN << >>
    ELSE LET resource_type == Head(kinds)
             rest == KindLines(data_dict, Tail(kinds))
         IN  IF resource_type \notin DOMAIN data_dict THEN rest
             ELSE <<resource_type \o ":">>
                  \o (IF data_dict[resource_type] = << >>
                      THEN <<"  - (none)">>
                      ELSE ItemLines(data_dict[resource_type]))
                  \o <<"">> \o rest

\* MainWindow.format_region_data
format_region_data(label, data_dict) ==
    Join(<<"Resources in region: " \o label \o "\n">> \o KindLines(data_dict, KindOrder))

RECURSIVE Combine(_, _)
\* for r, region_data in self.resources.items(): skip "ALL",
\* combined[key].extend(region_data[key]) for every key of combined.
Combine(items, combined) ==
    IF items = << >> THEN combined
    ELSE LET r == Head(items)[1]
             data == Head(items)[2]
         IN  IF r = "ALL" THEN Combine(Tail(items), combined)
             ELSE Combine(Tail(items),
                          [key \in DOMAIN combined |-> combined[key] \o data[key]])

\* The labels a selection event can carry: the items of the region list.
Selectable == {region_list[i] : i \in DOMAIN region_list}

\* MainWindow.__init__: fetch the data, fill the region list with the sorted
\* keys, log the initial message.
MainWindowInit ==
    /\ pc = "returned"
    /\ resources' = resources_by_region
    /\ region_list' = Sorted({DictKeys(resources_by_region)[i] :
                                 i \in DOMAIN resources_by_region})
    /\ log_text' = Append(log_text,
         "AWS Enumerator initialized. Select a region on the left to see its resources.")
    /\ pc' = "running"
    /\ UNCHANGED <<env_vars, enum_vars, hist_vars, resource_display, shown, selections>>

\* MainWindow.display_resources_for_region(current, previous), delivered by
\* region_list.currentItemChanged for an item of the list.  The list holds
\* the keys of self.resources, among which "ALL" never is, so the branch that
\* combines the regions is present as in the code but taken in no run.
display_resources_for_region(current) ==
    /\ pc = "running"
    /\ selections < MaxSelections
    /\ selections' = selections + 1
    /\ IF current = None
       THEN UNCHANGED <<log_text, resource_display, shown>>
       ELSE IF current = "ALL"
       THEN LET combined == Combine(resources, EmptyCombined)
            IN  /\ log_text' = Append(log_text, "Displaying resources for ALL regions.")
                /\ shown' = [label |-> "ALL", data |-> combined]
                /\ resource_display' = <<format_region_data("ALL", combined)>>
       ELSE LET data == IF DictHas(resources, current)
                        THEN DictGet(resources, current) ELSE << >>
            IN  /\ log_text' = Append(log_text,
                      "Displaying resources for region " \o current \o ".")
                /\ shown' = [label |-> current, data |-> data]
                /\ resource_display' = <<format_region_data(current, data)>>
    /\ UNCHANGED <<env_vars, pc, enum_vars, hist_vars, resources, region_list>>

Select == \E current \in Selectable : display_resources_for_region(current)

(* ------------------------------------------------------------------ Spec *)

Next ==
    \/ DescribeRegions
    \/ SkipPlaceholder
    \/ BeginRegion
    \/ Return
    \/ DescribeInstances
    \/ DescribeVolumes
    \/ DescribeSnapshots
    \/ DescribeSecurityGroups
    \/ ListBuckets
    \/ GetBucketLocation
    \/ DescribeDBInstances
    \/ MainWindowInit
    \/ Select

Spec == Init /\ [][Next]_vars

(* ------------------------------------------------------------ properties *)

\* The regions the listing returned.
Discovered == {cloud_regions[i] : i \in DOMAIN cloud_regions}

Items(seq) == {seq[i] : i \in DOMAIN seq}

Count(seq, x) == Cardinality({i \in DOMAIN seq : seq[i] = x})

RECURSIVE Dedup(_)
\* seq without the later occurrences of a repeated element.
Dedup(seq) ==
    IF seq = << >> THEN << >>
    ELSE LET front == Dedup(SubSeq(seq, 1, Len(seq) - 1))
             last == seq[Len(seq)]
         IN  IF last \in Items(front) THEN front ELSE Append(front, last)

\* The region that owns bucket b: its location constraint, the default
\* region when it has none.
Owner(b) == IF bucket_location[b] = None THEN "us-east-1" ELSE bucket_location[b]

\* What a region's inventory holds for a kind when the queries for it
\* succeed: the identifiers, "name (id)" and "id (Status: status)" strings of
\* the resources of region r, and the buckets that r owns.
Expected(r, k) ==
    CASE k = "Instances" ->
           (CASE r = "us-east-1" -> <<"i-use1a", "i-use1b", "i-use1c">>
              [] r = "eu-west-1" -> <<"i-euw1a">>)
      [] k = "Volumes" ->
           (CASE r = "us-east-1" -> <<"vol-use1a">>
              [] r = "eu-west-1" -> <<"vol-euw1a", "vol-euw1b">>)
      [] k = "Snapshots" ->
           (CASE r = "us-east-1" -> <<"snap-use1a">>
              [] r = "eu-west-1" -> <<"snap-euw1a">>)
      [] k = "SecurityGroups" ->
           (CASE r = "us-east-1" -> <<"default (sg-use1a)", "web (sg-use1b)">>
              [] r = "eu-west-1" -> <<"default (sg-euw1a)">>)
      [] k = "RDSInstances" ->
           (CASE r = "us-east-1" -> <<"db-use1a (Status: available)">>
              [] r = "eu-west-1" -> <<"db-euw1a (Status: stopped)">>)
      [] k = "S3Buckets" -> SelectSeq(BucketNames, LAMBDA b : Owner(b) = r)

RECURSIVE ConcatKind(_, _)
\* The sequences of kind k of the non-sentinel entries, concatenated in order.
ConcatKind(items, k) ==
    IF items = << >> THEN << >>
    ELSE (IF Head(items)[1] = "ALL" THEN << >> ELSE Head(items)[2][k])
         \o ConcatKind(Tail(items), k)

\* The lines the window logs that report no failure.
InfoMessages ==
    {"AWS Enumerator initialized. Select a region on the left to see its resources.",
     "Displaying resources for ALL regions."}
    \cup {"Displaying resources for region " \o r \o "." : r \in RegionNames}

\* The failure records among the logged lines.
FailureLog == SelectSeq(log_text, LAMBDA m : m \notin InfoMessages)

\* A clean run: discovery succeeded and no query failed in the pass that
\* produced a region's entry (a repeated region is collected again, and the
\* later pass replaces the earlier one).
Clean == failed = {} /\ ~discovery_failed

\* C1: when exactly one query (R, K) of a run fails, the inventory's sequence
\* for (R, K) is empty and every other (region, kind) sequence is what the
\* successful query yields, the kinds queried after K in R included.
C1_FailureIsolated ==
    (pc = "returned" /\ Cardinality(failed) = 1) =>
        \A i \in DOMAIN resources_by_region :
            LET r == resources_by_region[i][1]
                inventory == resources_by_region[i][2]
            IN  \A k \in Kinds :
                    inventory[k] = IF <<r, k>> \in failed THEN << >> ELSE Expected(r, k)

C3_SentinelIsConcatenation ==
    (pc = "running" /\ cloud_regions # << >> /\ Clean) =>
        /\ DictHas(resources, "ALL")
        /\ \A k \in Kinds : DictGet(resources, "ALL")[k] = ConcatKind(resources, k)
        /\ \A api \in Apis : calls[<<api, "ALL">>] = 0

\* C4: when discovery yields no region (empty listing, or the listing call
\* failed) the run does not abort and returns exactly the sentinel entry with
\* six empty sequences.
C4_ZeroRegionsGiveSentinelOnly ==
    (pc \in {"returned", "raised"} /\ (discovery_failed \/ cloud_regions = << >>)) =>
        /\ pc = "returned"
        /\ DictKeys(resources_by_region) = <<"ALL">>
        /\ DictGet(resources_by_region, "ALL") = [k \in Kinds |-> << >>]

\* C5: a run that discovered two or more regions has issued the global
\* bucket listing exactly once.  Stated for the clean runs whose regions are
\* distinct.
C5_BucketsListedOnce ==
    (/\ pc = "returned"
     /\ Clean
     /\ Len(cloud_regions) >= 2 /\ Cardinality(Discovered) = Len(cloud_regions)) =>
        calls[<<"list_buckets", "-">>] = 1

\* C6: a listed bucket whose location lookup returned no constraint is
\* exactly once in us-east-1's bucket sequence and in no other region's.
\* Stated for the runs whose listing holds us-east-1 and repeats no region.
C6_DefaultRegionBucketOnce ==
    (/\ pc = "returned"
     /\ "us-east-1" \in Discovered
     /\ Cardinality(Discovered) = Len(cloud_regions)) =>
        \A b \in located :
            bucket_location[b] = None =>
                /\ DictHas(resources_by_region, "us-east-1")
                /\ Count(DictGet(resources_by_region, "us-east-1")["S3Buckets"], b) = 1
                /\ \A i \in DOMAIN resources_by_region :
                       resources_by_region[i][1] # "us-east-1" =>
                           b \notin Items(resources_by_region[i][2]["S3Buckets"])

\* C7: no failure of a cloud call leaves the enumeration as an exception.
C7_NoFailureIsFatal == pc # "raised"

\* C8: the log holds a failure record for every (region, kind) whose query
\* failed and one for a failed discovery.
C8_FailuresAreRecorded ==
    pc = "running" =>
        Len(FailureLog) >= Cardinality(failed) + (IF discovery_failed THEN 1 ELSE 0)

\* C9: in a clean run (every run without a failed call is one) every
\* discovered region has an entry holding exactly what its queries returned
\* (identifiers in order, "name (id)", "id (Status: status)", the buckets it
\* owns in listing order); no item is in two regions' inventories and no
\* bucket is in the inventory twice.
C9_FaultFreeInventory ==
    (pc = "returned" /\ Clean) =>
        /\ Items(DictKeys(resources_by_region)) = Discovered
        /\ \A i \in DOMAIN resources_by_region :
               \A k \in Kinds :
                   resources_by_region[i][2][k] = Expected(resources_by_region[i][1], k)
        /\ \A i, j \in DOMAIN resources_by_region :
               i # j => \A k \in Kinds :
                   Items(resources_by_region[i][2][k])
                       \cap Items(resources_by_region[j][2][k]) = {}
        /\ \A b \in Items(BucketNames) :
               Cardinality({<<i, n>> \in (DOMAIN resources_by_region) \X (1..Len(BucketNames)) :
                               /\ n <= Len(resources_by_region[i][2]["S3Buckets"])
                               /\ resources_by_region[i][2]["S3Buckets"][n] = b}) <= 1

\* C9 witness: a run over two regions in which no call failed returned, each
\* region holding instances and at least one of them a bucket.
C9_Witness ==
    /\ pc = "returned"
    /\ Clean
    /\ Len(cloud_regions) = 2
    /\ Len(resources_by_region) = 2
    /\ \A i \in DOMAIN resources_by_region : resources_by_region[i][2]["Instances"] # << >>
    /\ \E i \in DOMAIN resources_by_region : resources_by_region[i][2]["S3Buckets"] # << >>

\* C10: the listing is queried once, the inventory's keys are the listed
\* identifiers without repeats in listing order, and no region's query is
\* issued more than once, also when the listing repeats an identifier.
\* Stated for the clean runs.
C10_EachRegionCollectedOnce ==
    (pc = "returned" /\ Clean) =>
        /\ calls[<<"describe_regions", "-">>] = 1
        /\ DictKeys(resources_by_region) = Dedup(cloud_regions)
        /\ \A api \in Apis : \A r \in RegionNames : calls[<<api, r>>] <= 1

====
